---- MODULE Spec2Model ----
(***************************************************************************)
(* Tile animation driver of the TilemapScene (djui/m3w).                   *)
(*                                                                         *)
(* TilemapScene.create scans the dynamic layers of the tilemap once and    *)
(* builds one AnimatedTile per placed tile whose local id is a key of the  *)
(* tileset's tileData; TilemapScene.update calls AnimatedTile.update on    *)
(* every instance once per game step.                                      *)
(*                                                                         *)
(* Times are JavaScript numbers.  The code catches no exception: a         *)
(* TypeError thrown by reading a property of undefined ends the handler    *)
(* where it is thrown, and the scene is then in phase "failed".            *)
(***************************************************************************)
EXTENDS Integers, Sequences, FiniteSets

\* ------------------------------------------------------------------ bounds

\* layers of a tilemap: 1 .. NumLayers
NumLayers == 2
\* frames of an animation: 0 .. MaxFrames
MaxFrames == 3

\* columns of a layer's single row of tiles: the tiles of a map differ by
\* their layer
LayerCols == {1}
\* local tile ids of the tileset (the tileid of a frame)
LocalIds == {0, 1, 2}
\* local ids that may carry an entry in tileData, and that placed tiles show
DataKeys == {0, 1}
\* the duration of the first frame: zero, or 100 ms
FirstDurations == {0, 100}
\* the durations the other frames may declare
OtherDurations == {100, 250}
\* the tileset's firstgid ("typically 1")
FirstGids == {1, 2}

\* ------------------------------------------------------ JavaScript numbers
\* A time is a JavaScript number (an IEEE-754 double).  The times of the model
\* are NaN and the doubles ms + eps * 2^-52 for a small integer ms >= 0 and a
\* small integer eps: the whole milliseconds (eps = 0) and their neighbours.

Num(i, j) == [nan |-> FALSE, ms |-> i, eps |-> j]

NaN == [nan |-> TRUE, ms |-> 0, eps |-> 0]

\* the largest power of two that is at most i, for i >= 1
RECURSIVE Pow2Floor(_)
Pow2Floor(i) == IF i < 2 THEN 1 ELSE 2 * Pow2Floor(i \div 2)

\* the distance of neighbouring doubles around i + j * 2^-52, in units of
\* 2^-52 (1 where the doubles are at least as dense as the units)
Ulp(i, j) ==
  IF i = 0 THEN 1
  ELSE LET p == Pow2Floor(i)
       IN  IF j < 0 /\ i = p THEN (IF p = 1 THEN 1 ELSE p \div 2) ELSE p

\* j rounded to the nearest multiple of u, a tie to the even multiple
RoundTo(j, u) ==
  LET lo == (j \div u) * u
      r  == j - lo
  IN  IF 2 * r < u THEN lo
      ELSE IF 2 * r > u THEN lo + u
      ELSE IF (lo \div u) % 2 = 0 THEN lo ELSE lo + u

\* a + b: the exact sum rounded to the nearest double
JSAdd(a, b) ==
  IF a.nan \/ b.nan THEN NaN
  ELSE LET i == a.ms + b.ms
           j == a.eps + b.eps
       IN  Num(i, RoundTo(j, Ulp(i, j)))

\* a % t for a >= 0 and an integer t >= 0: NaN for t = 0, else exact
JSRem(a, t) ==
  IF a.nan \/ t = 0 THEN NaN
  ELSE IF a.eps < 0 /\ a.ms % t = 0 THEN Num(t, a.eps)
  ELSE Num(a.ms % t, a.eps)

\* Math.floor(a / d) for a >= 0 and an integer d > 0: the rounded quotient of
\* a time below n * d stays below n
JSFloorDiv(a, d) ==
  IF a.eps < 0 /\ a.ms % d = 0 THEN (a.ms \div d) - 1 ELSE a.ms \div d

\* the delta of one game step: whole milliseconds
Deltas == { Num(i, 0) : i \in {0, 50, 100, 150, 200, 300} }

\* the delta of one game step: the doubles next to 50 ms
FractionalDeltas == { Num(50, 0 - 32), Num(50, 32) }

\* the instances' elapsed times stay within MaxEps * 2^-52 of a whole ms
MaxEps == 256

\* ------------------------------------------------------------------- types

LayerTypes == {"StaticTilemapLayer", "DynamicTilemapLayer"}

Frame == [duration : FirstDurations \cup OtherDurations, tileid : LocalIds]

\* TileAnimationData: Array<{ duration, tileid }> of n frames
AnimationsOfLen(n) ==
  { a \in [1..n -> Frame] :
      \A i \in 1..n : IF i = 1 THEN a[i].duration \in FirstDurations
                               ELSE a[i].duration \in OtherDurations }

TileAnimationData == UNION { AnimationsOfLen(n) : n \in 0..MaxFrames }

\* the animations of the scenes with several tiles: no frame, one frame, or two
\* frames that show consecutive tiles, the second for 100 ms
SceneAnimations ==
  AnimationsOfLen(0) \cup AnimationsOfLen(1) \cup
  { a \in AnimationsOfLen(2) :
      a[2].duration = 100 /\ a[2].tileid = (a[1].tileid + 1) % 3 }

\* the entries of TilesetTileData: { animation?: TileAnimationData }
TileDataEntries(A) ==
  { [hasAnimation |-> FALSE, animation |-> << >>] } \cup
  { [hasAnimation |-> TRUE, animation |-> a] : a \in A }

\* TilesetTileData: { [key: number]: { animation? } }, keys among Keys
TilesetTileData(Keys, A) == UNION { [K -> TileDataEntries(A)] : K \in SUBSET Keys }

\* a parsed layer: its type and its rows of tile indexes
LayerData(fg) ==
  [type : LayerTypes, data : [{1} -> [LayerCols -> { fg + k : k \in DataKeys }]]]

\* a parsed map of n layers with its tileset
Maps(n, Keys, A) ==
  UNION { [layers : [1..n -> LayerData(fg)],
           tileData : TilesetTileData(Keys, A),
           firstgid : {fg}] : fg \in FirstGids }

----------------------------------------------------------------------------
VARIABLES
  map,            \* the parsed map "map" and its tileset "tiles", as loaded
  phase,          \* "init" after init(), "running" after create(), "failed"
  layers,         \* tilemap.layers: the live tiles (tile.index)
  animatedTiles,  \* TilemapScene.animatedTiles
  touched         \* history: the positions in animatedTiles whose update ran

vars == << map, phase, layers, animatedTiles, touched >>

\* the tile a reference <<layer, row, column>> names
TileIndex(ls, t) == ls[t[1]].data[t[2]][t[3]]

SetTileIndex(ls, t, v) ==
  [ls EXCEPT ![t[1]].data[t[2]][t[3]] = v]

----------------------------------------------------------------------------
\* AnimatedTile

\* new AnimatedTile(tile, tileAnimationData, firstgid) reads
\* tileAnimationData[0].duration: a TypeError when tileAnimationData is
\* undefined (an entry without animation) and when it has no frame
CtorThrows(entry) == ~entry.hasAnimation \/ Len(entry.animation) = 0

NewAnimatedTile(tile, entry, firstgid) ==
  [tile |-> tile,
   tileAnimationData |-> entry.animation,
   firstgid |-> firstgid,
   elapsedTime |-> Num(0, 0),
   animationDuration |-> entry.animation[1].duration * Len(entry.animation)]

\* a wrap that subtracts the duration once: if (elapsed >= duration) elapsed -= duration
NextElapsedSubtractOnce(at, delta) ==
  LET s == JSAdd(at.elapsedTime, delta)
  IN  IF s.ms >= at.animationDuration THEN Num(s.ms - at.animationDuration, s.eps) ELSE s

\* a wrap that restarts the animation: if (elapsed >= duration) elapsed = 0
NextElapsedRestart(at, delta) ==
  LET s == JSAdd(at.elapsedTime, delta)
  IN  IF s.ms >= at.animationDuration THEN Num(0, 0) ELSE s

\* no wrap: the line elapsedTime %= animationDuration is missing
NextElapsedUnwrapped(at, delta) == JSAdd(at.elapsedTime, delta)

\* this.elapsedTime += delta; this.elapsedTime %= this.animationDuration
NextElapsed(at, delta) ==
  JSRem(JSAdd(at.elapsedTime, delta), at.animationDuration)

\* Math.round in the place of Math.floor
FrameIndexRounded(at, elapsed) ==
  (2 * elapsed.ms + at.tileAnimationData[1].duration)
    \div (2 * at.tileAnimationData[1].duration)

\* animatonFrameIndex (0-based) for an elapsed time that is not NaN
FrameIndex(at, elapsed) ==
  JSFloorDiv(elapsed, at.tileAnimationData[1].duration)

\* tileAnimationData[animatonFrameIndex] is undefined, for the index NaN or
\* Infinity (x / 0) and for an index past the last frame: reading its tileid
\* throws a TypeError
FrameMissing(at, elapsed) ==
  \/ elapsed.nan
  \/ at.tileAnimationData[1].duration = 0
  \/ FrameIndex(at, elapsed) >= Len(at.tileAnimationData)

\* the index update writes to the tile for an elapsed time with a frame
FrameTile(at, elapsed) ==
  at.tileAnimationData[FrameIndex(at, elapsed) + 1].tileid + at.firstgid

\* AnimatedTile.update(delta): the instance after the call, whether the call
\* threw, and the index written to the tile (0 when it threw: none is written)
AnimatedTileUpdate(at, delta) ==
  LET e == NextElapsed(at, delta)
  IN  [at |-> [at EXCEPT !.elapsedTime = e],
       threw |-> FrameMissing(at, e),
       index |-> IF FrameMissing(at, e) THEN 0 ELSE FrameTile(at, e)]

----------------------------------------------------------------------------
\* TilemapScene.create: the scan

\* the keys of tileData in the order of for..in (integer keys ascend)
RECURSIVE SortedKeys(_)
SortedKeys(K) ==
  IF K = {} THEN << >>
  ELSE LET m == CHOOSE k \in K : \A j \in K : k <= j
       IN  << m >> \o SortedKeys(K \ {m})

\* the tiles of the layers in the order of the nested forEach
RECURSIVE RowTiles(_, _, _, _)
RowTiles(ls, l, r, c) ==
  IF c > Len(ls[l].data[r]) THEN << >>
  ELSE << << l, r, c >> >> \o RowTiles(ls, l, r, c + 1)

RECURSIVE LayerTiles(_, _, _)
LayerTiles(ls, l, r) ==
  IF r > Len(ls[l].data) THEN << >>
  ELSE RowTiles(ls, l, r, 1) \o LayerTiles(ls, l, r + 1)

\* the scan without its test of the layer's type
ScannedLayerAny(layer) == layer.type \in LayerTypes

\* a static layer is skipped
ScannedLayer(layer) == layer.type # "StaticTilemapLayer"

RECURSIVE ScannedTiles(_, _)
ScannedTiles(ls, l) ==
  IF l > Len(ls) THEN << >>
  ELSE (IF ScannedLayer(ls[l]) THEN LayerTiles(ls, l, 1) ELSE << >>)
       \o ScannedTiles(ls, l + 1)

\* the comparison without firstgid: tile.index === parseInt(tileid, 10)
TileMatchesGlobalIndex(index, firstgid, tileid) == index = tileid

\* tile.index - tileset.firstgid === parseInt(tileid, 10)
TileMatches(index, firstgid, tileid) == index - firstgid = tileid

\* the loop body over the tiles ts from position p on, for one tileid
RECURSIVE ScanTiles(_, _, _, _, _)
ScanTiles(m, ts, p, tileid, acc) ==
  IF acc.threw \/ p > Len(ts) THEN acc
  ELSE IF TileMatches(TileIndex(m.layers, ts[p]), m.firstgid, tileid)
       THEN IF CtorThrows(m.tileData[tileid])
            THEN [acc EXCEPT !.threw = TRUE]
            ELSE ScanTiles(m, ts, p + 1, tileid,
                   [acc EXCEPT !.animatedTiles =
                      Append(@, NewAnimatedTile(ts[p], m.tileData[tileid], m.firstgid))])
       ELSE ScanTiles(m, ts, p + 1, tileid, acc)

\* for (let tileid in tileData) ...
RECURSIVE ScanKeys(_, _, _, _)
ScanKeys(m, keys, k, acc) ==
  IF acc.threw \/ k > Len(keys) THEN acc
  ELSE ScanKeys(m, keys, k + 1,
         ScanTiles(m, ScannedTiles(m.layers, 1), 1, keys[k], acc))

Scan(m, animated) ==
  ScanKeys(m, SortedKeys(DOMAIN m.tileData), 1,
           [animatedTiles |-> animated, threw |-> FALSE])

\* a constructor that shows the first frame: tile.index = frames[0].tileid + firstgid
RECURSIVE ShowFirstFrames(_, _)
ShowFirstFrames(ls, ats) ==
  IF ats = << >> THEN ls
  ELSE ShowFirstFrames(
         SetTileIndex(ls, Head(ats).tile,
                      Head(ats).tileAnimationData[1].tileid + Head(ats).firstgid),
         Tail(ats))

\* the tiles after the scan: the constructor keeps a reference to its tile and
\* writes nothing to it
TilesAfterScan(ls, ats) == ls

----------------------------------------------------------------------------
\* TilemapScene.update: the pass over animatedTiles

RECURSIVE UpdatePass(_, _, _)
UpdatePass(st, order, delta) ==
  IF st.threw \/ order = << >> THEN st
  ELSE LET i == Head(order)
           u == AnimatedTileUpdate(st.animatedTiles[i], delta)
       IN  UpdatePass(
             [animatedTiles |-> [st.animatedTiles EXCEPT ![i] = u.at],
              layers |-> IF u.threw THEN st.layers
                         ELSE SetTileIndex(st.layers, st.animatedTiles[i].tile, u.index),
              touched |-> st.touched \cup {i},
              threw |-> u.threw],
             Tail(order), delta)

\* forEach visits the instances in the order of the array
ArrayOrder(n) == [i \in 1..n |-> i]

PassState == [animatedTiles |-> animatedTiles, layers |-> layers,
              touched |-> touched, threw |-> FALSE]

----------------------------------------------------------------------------
\* the scenes: a map of up to NumLayers layers with the animations of the
\* scenes, or a map of one layer whose tileset has one entry with any animation
SceneMaps == UNION { Maps(n, DataKeys, SceneAnimations) : n \in 1..NumLayers }

TileMaps == UNION { Maps(1, {k}, TileAnimationData) : k \in DataKeys }

\* after init(): animatedTiles = []
Init ==
  /\ map \in SceneMaps \cup TileMaps
  /\ phase = "init"
  /\ layers = << >>
  /\ animatedTiles = << >>
  /\ touched = {}

\* create(): the tilemap is made from the loaded map and scanned
Create ==
  /\ phase = "init"
  /\ \E s \in { Scan(map, animatedTiles) } :
         /\ ~s.threw
         /\ animatedTiles' = s.animatedTiles
         /\ layers' = TilesAfterScan(map.layers, s.animatedTiles)
  /\ phase' = "running"
  /\ UNCHANGED << map, touched >>

\* create() where a constructor throws: the instances pushed so far remain
CreateThrows ==
  /\ phase = "init"
  /\ \E s \in { Scan(map, animatedTiles) } :
         /\ s.threw
         /\ animatedTiles' = s.animatedTiles
         /\ layers' = TilesAfterScan(map.layers, s.animatedTiles)
  /\ phase' = "failed"
  /\ UNCHANGED << map, touched >>

\* the elapsed times stay among the doubles of the model
WithinEps(ats) ==
  \A i \in 1..Len(ats) :
    ats[i].elapsedTime.nan \/
    (ats[i].elapsedTime.eps <= MaxEps /\ 0 - ats[i].elapsedTime.eps <= MaxEps)

\* update(time, delta)
Update(delta) ==
  /\ phase = "running"
  /\ \E s \in { UpdatePass(PassState, ArrayOrder(Len(animatedTiles)), delta) } :
         /\ ~s.threw
         /\ WithinEps(s.animatedTiles)
         /\ animatedTiles' = s.animatedTiles
         /\ layers' = s.layers
         /\ touched' = s.touched
  /\ UNCHANGED << map, phase >>

\* update(time, delta) where an instance's update throws: the pass ends there
UpdateThrows(delta) ==
  /\ phase = "running"
  /\ \E s \in { UpdatePass(PassState, ArrayOrder(Len(animatedTiles)), delta) } :
         /\ s.threw
         /\ WithinEps(s.animatedTiles)
         /\ animatedTiles' = s.animatedTiles
         /\ layers' = s.layers
         /\ touched' = s.touched
  /\ phase' = "failed"
  /\ UNCHANGED map

\* the game steps of a host whose deltas are whole milliseconds
Next ==
  \/ Create
  \/ CreateThrows
  \/ \E delta \in Deltas : Update(delta)
  \/ \E delta \in Deltas : UpdateThrows(delta)

Spec == Init /\ [][Next]_vars

\* the game steps of a host whose deltas may be fractions of a millisecond
NextFractional ==
  \/ Create
  \/ CreateThrows
  \/ \E delta \in Deltas \cup FractionalDeltas : Update(delta)
  \/ \E delta \in Deltas \cup FractionalDeltas : UpdateThrows(delta)

\* after init(), for the maps of one tile
InitTile ==
  /\ map \in TileMaps
  /\ phase = "init"
  /\ layers = << >>
  /\ animatedTiles = << >>
  /\ touched = {}

SpecFractional == InitTile /\ [][NextFractional]_vars

----------------------------------------------------------------------------
\* properties of the driver

Instances == DOMAIN animatedTiles

\* N >= 1 frames and a frame duration D > 0
WellFormed(at) ==
  Len(at.tileAnimationData) >= 1 /\ at.tileAnimationData[1].duration > 0

\* a whole number of milliseconds
WholeMs(x) == ~x.nan /\ x.eps = 0

\* the local ids with an animation definition
AnimatedKeys(m) == { k \in DOMAIN m.tileData : m.tileData[k].hasAnimation }

\* the local id a tile had when it was scanned
ScanLocalId(t) == TileIndex(map.layers, t) - map.firstgid

\* the placed tiles of the map
PlacedTiles ==
  { << l, r, c >> \in (DOMAIN map.layers) \X {1} \X LayerCols : TRUE }

\* the indexes the frames of an instance show
FrameTiles(at) ==
  { at.tileAnimationData[k].tileid + at.firstgid : k \in DOMAIN at.tileAnimationData }

\* update(d1) then update(d2) against update(d1 + d2)
Additive(at, d1, d2) ==
  LET a == AnimatedTileUpdate(at, d1)
      b == AnimatedTileUpdate(a.at, d2)
      c == AnimatedTileUpdate(at, JSAdd(d1, d2))
  IN  /\ ~a.threw /\ ~b.threw /\ ~c.threw
      /\ b.index = c.index
      /\ b.at.elapsedTime = c.at.elapsedTime

\* C1 as stated: for every instance with N >= 1 frames and D > 0 in any
\* reachable state and all deltas d1, d2 >= 0, update(d1) then update(d2)
\* leaves the same displayed index and elapsed time as update(d1 + d2).
C1_AdditiveForAllDeltas ==
  \A i \in Instances :
    WellFormed(animatedTiles[i]) =>
      \A d1 \in Deltas \cup FractionalDeltas :
        \A d2 \in Deltas \cup FractionalDeltas :
          Additive(animatedTiles[i], d1, d2)

\* C1 amended: the same, for an instance whose elapsed time is a whole number
\* of milliseconds and deltas d1, d2 that are whole numbers of milliseconds.
C1_AdditiveForWholeMs ==
  \A i \in Instances :
    (WellFormed(animatedTiles[i]) /\ WholeMs(animatedTiles[i].elapsedTime)) =>
      \A d1 \in Deltas : \A d2 \in Deltas : Additive(animatedTiles[i], d1, d2)

\* an updated instance of two or more frames part-way through its cycle
C1_Witness ==
  \E i \in Instances :
    /\ WellFormed(animatedTiles[i])
    /\ i \in touched
    /\ Len(animatedTiles[i].tileAnimationData) >= 2
    /\ WholeMs(animatedTiles[i].elapsedTime)
    /\ animatedTiles[i].elapsedTime.ms > 0

\* the delta of one full cycle, D * N
FullCycle(at) ==
  Num(at.tileAnimationData[1].duration * Len(at.tileAnimationData), 0)

\* C2 as stated: for N >= 1 frames of duration D > 0, one update(D * N) leaves
\* the displayed index as it was before the call, also when the call is the
\* first update after construction, and leaves the elapsed time unchanged.
C2_FullCycleKeepsIndex ==
  \A i \in Instances :
    WellFormed(animatedTiles[i]) =>
      \E u \in { AnimatedTileUpdate(animatedTiles[i], FullCycle(animatedTiles[i])) } :
        /\ ~u.threw
        /\ u.index = TileIndex(layers, animatedTiles[i].tile)
        /\ u.at.elapsedTime = animatedTiles[i].elapsedTime

\* C2 amended: for an elapsed time that is a whole number of milliseconds, one
\* update(D * N) leaves the elapsed time unchanged; it leaves the displayed
\* index unchanged when the instance has been updated before, or when its first
\* frame shows the tile's own index.
C2_FullCycleOnceUpdated ==
  \A i \in Instances :
    (WellFormed(animatedTiles[i]) /\ WholeMs(animatedTiles[i].elapsedTime)) =>
      \E u \in { AnimatedTileUpdate(animatedTiles[i], FullCycle(animatedTiles[i])) } :
        /\ ~u.threw
        /\ u.at.elapsedTime = animatedTiles[i].elapsedTime
        /\ ( \/ i \in touched
             \/ animatedTiles[i].tileAnimationData[1].tileid + animatedTiles[i].firstgid
                  = TileIndex(layers, animatedTiles[i].tile) )
           => u.index = TileIndex(layers, animatedTiles[i].tile)

\* an updated instance that shows a frame other than its first
C2_Witness ==
  \E i \in Instances :
    /\ WellFormed(animatedTiles[i])
    /\ i \in touched
    /\ WholeMs(animatedTiles[i].elapsedTime)
    /\ animatedTiles[i].elapsedTime.ms >= animatedTiles[i].tileAnimationData[1].duration
    /\ TileIndex(layers, animatedTiles[i].tile)
         # animatedTiles[i].tileAnimationData[1].tileid + animatedTiles[i].firstgid

\* the frames of the scenario: 100 ms each, tiles 0, 1, 2
ScenarioFrames ==
  << [duration |-> 100, tileid |-> 0],
     [duration |-> 100, tileid |-> 1],
     [duration |-> 100, tileid |-> 2] >>

\* the instances a pass reaches: those with no throwing instance before them
Reached(i) == \A j \in 1..(i - 1) : WellFormed(animatedTiles[j])

\* what update(d) leaves of instance i, for whole milliseconds
UpdatedBy(i, d) ==
  LET at == animatedTiles[i]
      D  == at.tileAnimationData[1].duration
      N  == Len(at.tileAnimationData)
      e  == (at.elapsedTime.ms + d.ms) % (D * N)
  IN  /\ animatedTiles'[i].elapsedTime = Num(e, 0)
      /\ TileIndex(layers', at.tile)
           = at.tileAnimationData[(e \div D) + 1].tileid + at.firstgid

C4_OnlyAnimatedIdsBound ==
  \A t \in PlacedTiles :
    ScanLocalId(t) \notin AnimatedKeys(map) =>
      \A i \in Instances : animatedTiles[i].tile # t

\* after create: a scanned tile without animation definition next to a bound one
C4_Witness ==
  /\ phase = "running"
  /\ animatedTiles # << >>
  /\ \E t \in PlacedTiles :
       /\ ScannedLayer(map.layers[t[1]])
       /\ ScanLocalId(t) \notin AnimatedKeys(map)

\* C5: when no local id has animation data, create completes with no instance
\* and no update changes the index of a tile.
C5_NoAnimationNoInstances ==
  AnimatedKeys(map) = {} =>
    /\ phase # "failed"
    /\ animatedTiles = << >>
    /\ phase = "running" => layers = map.layers

\* C6: no tile of a static layer is bound to an instance, and the tiles of a
\* static layer keep their indexes.
C6_StaticLayersUntouched ==
  \A l \in DOMAIN layers :
    layers[l].type = "StaticTilemapLayer" =>
      /\ layers[l] = map.layers[l]
      /\ \A i \in Instances : animatedTiles[i].tile[1] # l

\* a static layer with a tile of an animated id, after an update has changed
\* the index of a tile of another layer
C6_Witness ==
  /\ phase = "running"
  /\ layers # map.layers
  /\ \E t \in PlacedTiles :
       /\ layers[t[1]].type = "StaticTilemapLayer"
       /\ ScanLocalId(t) \in AnimatedKeys(map)
       /\ ~CtorThrows(map.tileData[ScanLocalId(t)])

\* C7: a definition with no frame or with a total duration that is not
\* positive is rejected at construction: no instance has one, and no update
\* takes a remainder by zero.
C7_MalformedRejected ==
  \A i \in Instances :
    /\ WellFormed(animatedTiles[i])
    /\ animatedTiles[i].animationDuration > 0
    /\ ~animatedTiles[i].elapsedTime.nan

\* C8 as stated: an instance that has not been updated shows its first
\* frame's tile id + firstgid, for every animation definition (here: every
\* definition with N >= 1 frames and D > 0).
C8_FirstFrameAtConstruction ==
  \A i \in Instances :
    (i \notin touched /\ WellFormed(animatedTiles[i])) =>
      /\ animatedTiles[i].elapsedTime = Num(0, 0)
      /\ TileIndex(layers, animatedTiles[i].tile)
           = animatedTiles[i].tileAnimationData[1].tileid + animatedTiles[i].firstgid

\* C8 amended: an instance that has not been updated has elapsed time 0 and
\* its tile still shows the index it was scanned with, the matched key +
\* firstgid; an updated instance at elapsed time 0 shows its first frame's
\* tile id + firstgid.
C8_ScannedIndexUntilUpdated ==
  \A i \in Instances :
    /\ i \notin touched =>
         /\ animatedTiles[i].elapsedTime = Num(0, 0)
         /\ TileIndex(layers, animatedTiles[i].tile)
              = TileIndex(map.layers, animatedTiles[i].tile)
         /\ ScanLocalId(animatedTiles[i].tile) \in AnimatedKeys(map)
         /\ animatedTiles[i].tileAnimationData
              = map.tileData[ScanLocalId(animatedTiles[i].tile)].animation
    /\ ( /\ i \in touched
         /\ WellFormed(animatedTiles[i])
         /\ animatedTiles[i].elapsedTime = Num(0, 0) ) =>
         TileIndex(layers, animatedTiles[i].tile)
           = animatedTiles[i].tileAnimationData[1].tileid + animatedTiles[i].firstgid

\* a new instance whose first frame shows another tile than the matched key
C8_Witness ==
  /\ phase = "running"
  /\ \E i \in Instances :
       /\ i \notin touched
       /\ WellFormed(animatedTiles[i])
       /\ animatedTiles[i].tileAnimationData[1].tileid
            # ScanLocalId(animatedTiles[i].tile)

\* C9: with whole-millisecond deltas, an instance with N >= 1 frames and
\* D > 0 has 0 <= elapsed < D * N and a frame index in 0 .. N-1, and once
\* updated its tile shows the index of one of its frames.
C9_ElapsedInRange ==
  \A i \in Instances :
    WellFormed(animatedTiles[i]) =>
      LET at == animatedTiles[i]
          D  == at.tileAnimationData[1].duration
          N  == Len(at.tileAnimationData)
      IN  /\ WholeMs(at.elapsedTime)
          /\ 0 <= at.elapsedTime.ms
          /\ at.elapsedTime.ms < D * N
          /\ FrameIndex(at, at.elapsedTime) \in 0..(N - 1)
          /\ i \in touched => TileIndex(layers, at.tile) \in FrameTiles(at)

\* an updated instance of two or more frames past its first frame
C9_Witness ==
  \E i \in Instances :
    /\ WellFormed(animatedTiles[i])
    /\ i \in touched
    /\ Len(animatedTiles[i].tileAnimationData) >= 2
    /\ FrameIndex(animatedTiles[i], animatedTiles[i].elapsedTime) >= 1

\* the orders in which a pass can visit n instances
Orders(n) ==
  { o \in [1..n -> 1..n] : \A i \in 1..n : \A j \in 1..n : o[i] = o[j] => i = j }

\* C10: a pass leaves the same instances and tiles in whatever order it
\* visits the instances; it keeps the set of instances, and no two instances
\* are bound to one tile.
C10_PassOrderInsensitive ==
  /\ \A i \in Instances : \A j \in Instances :
       animatedTiles[i].tile = animatedTiles[j].tile => i = j
  /\ \A d \in Deltas :
       \E a \in { UpdatePass(PassState, ArrayOrder(Len(animatedTiles)), d) } :
         /\ Len(a.animatedTiles) = Len(animatedTiles)
         /\ \A o \in Orders(Len(animatedTiles)) :
              \E b \in { UpdatePass(PassState, o, d) } :
                /\ b.animatedTiles = a.animatedTiles
                /\ b.layers = a.layers

\* C10 for the scenes whose instances all have N >= 1 frames and D > 0, where
\* no update throws: the pass is insensitive to its order.
C10_OrderInsensitiveWhenWellFormed ==
  (\A i \in Instances : WellFormed(animatedTiles[i])) => C10_PassOrderInsensitive

====
